---- MODULE Spec2Model ----
(***************************************************************************)
(* Model of the solar analytics services of solar-grid-xpert:              *)
(*   - ai-analysis-service (Flask): SolarPerformanceModel.predict_output   *)
(*     and the /api/ai_analysis and /api/batch_analysis handlers;          *)
(*   - ai (FastAPI): /forecast_power and /detect_anomalies with their      *)
(*     helper functions.                                                   *)
(* Numbers are exact rationals [n |-> numerator, d |-> denominator > 0] in *)
(* lowest terms; Python's binary floating point is not modelled.           *)
(***************************************************************************)
EXTENDS Integers, Sequences, FiniteSets, TLC

VARIABLES
    model_instance, \* ml_model._model_instance: the shared SolarPerformanceModel
    request,        \* the HTTP request being served: [endpoint, ...payload]
    response,       \* NoResponse, or the handler's reply [status, ...]
    frame,          \* locals of the predict_output call made by /api/ai_analysis
    calls           \* worker -> frame of a predict_output call in progress

vars == <<model_instance, request, response, frame, calls>>

-----------------------------------------------------------------------------
(* Exact arithmetic standing for Python's float arithmetic.                *)

Abs(x) == IF x < 0 THEN -x ELSE x

RECURSIVE GCD(_, _)
GCD(a, b) == IF b = 0 THEN a ELSE GCD(b, a % b)

\* The rational n/d (d # 0) in lowest terms with a positive denominator.
R(n, d) ==
    LET g == GCD(Abs(n), Abs(d))
        s == IF d < 0 THEN -1 ELSE 1
    IN  [n |-> (s * n) \div g, d |-> (s * d) \div g]

I(k) == [n |-> k, d |-> 1]

RAdd(a, b) == R(a.n * b.d + b.n * a.d, a.d * b.d)

RNeg(a) == [n |-> -a.n, d |-> a.d]

RSub(a, b) == RAdd(a, RNeg(b))

\* Cross-reduced before multiplying, so that intermediate products stay small.
RMul(a, b) ==
    LET g1 == GCD(Abs(a.n), b.d)
        g2 == GCD(Abs(b.n), a.d)
    IN  R((a.n \div g1) * (b.n \div g2), (a.d \div g2) * (b.d \div g1))

\* a / b for b # 0.
RDiv(a, b) == RMul(a, R(b.d, b.n))

RLt(a, b) == a.n * b.d < b.n * a.d

RLe(a, b) == a.n * b.d <= b.n * a.d

RAbs(a) == [n |-> Abs(a.n), d |-> a.d]

RMax(a, b) == IF RLt(a, b) THEN b ELSE a

RMin(a, b) == IF RLt(b, a) THEN b ELSE a

\* Python's round(x, digits) with scale = 10^digits: the nearest multiple of
\* 1/scale, a tie going to the even one.
Round(x, scale) ==
    LET whole == x.n \div x.d
        part  == (x.n % x.d) * scale
        fl    == whole * scale + part \div x.d
        rm    == part % x.d
        up    == \/ 2 * rm > x.d
                 \/ 2 * rm = x.d /\ fl % 2 = 1
    IN  R(IF up THEN fl + 1 ELSE fl, scale)

\* sum(values); exact addition is associative, so the list is summed by
\* halves to keep the evaluation shallow.
RECURSIVE RSumRange(_, _, _)
RSumRange(s, lo, hi) ==
    IF lo > hi THEN I(0)
    ELSE IF lo = hi THEN s[lo]
    ELSE LET mid == (lo + hi) \div 2
         IN  RAdd(RSumRange(s, lo, mid), RSumRange(s, mid + 1, hi))

RSum(s) == RSumRange(s, 1, Len(s))

-----------------------------------------------------------------------------
(* ml_model.py: SolarPerformanceModel                                      *)

None == <<>>

Some(v) == <<v>>

\* SolarPerformanceModel.__init__: the threshold and feature-importance tables.
\* Feature importances are in hundredths.
NewModel ==
    [ thresholds |->
        [ panel_temp_high      |-> I(65),
          panel_temp_critical  |-> I(75),
          soiling_critical     |-> I(8),
          inverter_eff_low     |-> I(94),
          battery_soc_low      |-> I(20),
          battery_soc_critical |-> I(10),
          deviation_warning    |-> I(10),
          deviation_critical   |-> I(20) ],
      feature_importance |->
        << <<"irradiance", 35>>, <<"panel_temp", 22>>, <<"inverter_eff", 15>>,
           <<"soiling_index", 12>>, <<"battery_soc", 8>>, <<"ambient_temp", 4>>,
           <<"wind_speed", 2>>, <<"tilt", 1>>, <<"azimuth", 1>>,
           <<"pr_baseline", 0>> >> ]

\* dict.get(key, default) on a telemetry record (a function from the field
\* names that are present to their values).
Get(inputs, key, default) ==
    IF key \in DOMAIN inputs THEN inputs[key] ELSE default

\* inputs.get('actual_output', None)
GetActual(inputs) ==
    IF "actual_output" \in DOMAIN inputs THEN Some(inputs["actual_output"]) ELSE None

\* The derating without its clamp to [0.7, 1.0].
TempCorrectionUnclamped(panel_temp) ==
    RSub(I(1), RMul(RSub(panel_temp, I(25)), R(4, 1000)))

\* temp_correction = max(0.7, min(1.0, 1 - (panel_temp - 25) * 0.004))
TempCorrection(panel_temp) ==
    RMax(R(7, 10),
         RMin(I(1), RSub(I(1), RMul(RSub(panel_temp, I(25)), R(4, 1000)))))

\* The soiling index taken as tenths instead of percent.
SoilingFactorTenths(soiling_index) == RSub(I(1), RDiv(soiling_index, I(10)))

SoilingFactor(soiling_index) == RSub(I(1), RDiv(soiling_index, I(100)))

InverterFactor(inverter_eff) == RDiv(inverter_eff, I(100))

IrradianceFactor(irradiance) == RDiv(irradiance, I(1000))

\* predicted_output: the product of the six factors, not clamped.
PredictedOutput(inputs) ==
    RMul(RMul(RMul(RMul(RMul(
        Get(inputs, "system_capacity", I(100)),
        IrradianceFactor(Get(inputs, "irradiance", I(0)))),
        Get(inputs, "pr_baseline", R(80, 100))),
        TempCorrection(Get(inputs, "panel_temp", I(35)))),
        SoilingFactor(Get(inputs, "soiling_index", I(2)))),
        InverterFactor(Get(inputs, "inverter_eff", I(96))))

\* The division guarded against zero only, not against a negative prediction.
DeviationNonZeroGuard(actual_output, predicted_output) ==
    IF actual_output # None /\ predicted_output.n # 0
    THEN RMul(RDiv(RSub(actual_output[1], predicted_output), predicted_output),
              I(100))
    ELSE I(0)

\* The deviation of actual from predicted output, in percent.
Deviation(actual_output, predicted_output) ==
    IF actual_output # None
    THEN IF RLt(I(0), predicted_output)
         THEN RMul(RDiv(RSub(actual_output[1], predicted_output), predicted_output),
                   I(100))
         ELSE I(0)
    ELSE I(0)

\* The increment the deviation adds to the fault score.
DeviationFault(m, deviation) ==
    IF RLt(m.thresholds.deviation_critical, RAbs(deviation)) THEN R(4, 10)
    ELSE IF RLt(m.thresholds.deviation_warning, RAbs(deviation)) THEN R(2, 10)
    ELSE I(0)

\* A panel temperature check that also fires at the threshold itself.
PanelTempFaultInclusive(m, inputs) ==
    LET panel_temp == Get(inputs, "panel_temp", I(35))
    IN  IF RLe(m.thresholds.panel_temp_critical, panel_temp) THEN R(3, 10)
        ELSE IF RLe(m.thresholds.panel_temp_high, panel_temp) THEN R(1, 10)
        ELSE I(0)

PanelTempFault(m, inputs) ==
    LET panel_temp == Get(inputs, "panel_temp", I(35))
    IN  IF RLt(m.thresholds.panel_temp_critical, panel_temp) THEN R(3, 10)
        ELSE IF RLt(m.thresholds.panel_temp_high, panel_temp) THEN R(1, 10)
        ELSE I(0)

SoilingFault(m, inputs) ==
    IF RLt(m.thresholds.soiling_critical, Get(inputs, "soiling_index", I(2)))
    THEN R(2, 10) ELSE I(0)

InverterFault(m, inputs) ==
    IF RLt(Get(inputs, "inverter_eff", I(96)), m.thresholds.inverter_eff_low)
    THEN R(1, 10) ELSE I(0)

CalculateFaultProbability(m, inputs, deviation) ==
    RMin(I(1),
         RAdd(RAdd(RAdd(DeviationFault(m, deviation), PanelTempFault(m, inputs)),
                   SoilingFault(m, inputs)),
              InverterFault(m, inputs)))


\* _get_top_influence_factors: the three heaviest features; sorted() is stable
\* and reverse=True keeps the table order of equal weights.
RECURSIVE InsertByWeight(_, _)
InsertByWeight(sorted, x) ==
    IF sorted = <<>> THEN <<x>>
    ELSE IF x[2] > Head(sorted)[2] THEN <<x>> \o sorted
    ELSE <<Head(sorted)>> \o InsertByWeight(Tail(sorted), x)

RECURSIVE SortByWeight(_)
SortByWeight(items) ==
    IF items = <<>> THEN <<>>
    ELSE InsertByWeight(SortByWeight(SubSeq(items, 1, Len(items) - 1)),
                        items[Len(items)])

GetTopInfluenceFactors(m) ==
    LET sorted_factors == SortByWeight(m.feature_importance)
    IN  [i \in 1..3 |-> sorted_factors[i][1]]

\* priority_order.get(x['priority'], 4)
PriorityOrder(priority) ==
    CASE priority = "Critical" -> 0
      [] priority = "High"     -> 1
      [] priority = "Medium"   -> 2
      [] priority = "Info"     -> 3
      [] OTHER                 -> 4

Rec(priority, msg) == [priority |-> priority, msg |-> msg]

\* The six rules of _generate_recommendations, each appending at most one
\* entry; msg names the message template of the branch taken.
PanelTempRule(m, inputs) ==
    LET panel_temp == Get(inputs, "panel_temp", I(35))
    IN  IF RLt(m.thresholds.panel_temp_critical, panel_temp)
        THEN <<Rec("Critical", "panel_over_temperature")>>
        ELSE IF RLt(m.thresholds.panel_temp_high, panel_temp)
        THEN <<Rec("High", "panel_temperature_elevated")>>
        ELSE <<>>

SoilingRule(m, inputs) ==
    LET soiling == Get(inputs, "soiling_index", I(2))
    IN  IF RLt(m.thresholds.soiling_critical, soiling)
        THEN <<Rec("High", "heavy_soiling")>>
        ELSE IF RLt(I(4), soiling)
        THEN <<Rec("Medium", "moderate_soiling")>>
        ELSE <<>>

InverterRule(m, inputs) ==
    IF RLt(Get(inputs, "inverter_eff", I(96)), m.thresholds.inverter_eff_low)
    THEN <<Rec("Medium", "inverter_below_baseline")>>
    ELSE <<>>

\* A battery check that stays silent when the charge is not low.
BatteryRuleSilentWhenStable(m, inputs) ==
    LET battery_soc == Get(inputs, "battery_soc", I(70))
    IN  IF RLt(battery_soc, m.thresholds.battery_soc_critical)
        THEN <<Rec("Critical", "battery_critically_low")>>
        ELSE IF RLt(battery_soc, m.thresholds.battery_soc_low)
        THEN <<Rec("Medium", "battery_low")>>
        ELSE <<>>

BatteryRule(m, inputs) ==
    LET battery_soc == Get(inputs, "battery_soc", I(70))
    IN  IF RLt(battery_soc, m.thresholds.battery_soc_critical)
        THEN <<Rec("Critical", "battery_critically_low")>>
        ELSE IF RLt(battery_soc, m.thresholds.battery_soc_low)
        THEN <<Rec("Medium", "battery_low")>>
        ELSE <<Rec("Info", "battery_stable")>>

\* A deviation check that reacts to over-performance as to under-performance.
DeviationRuleEitherDirection(m, deviation, actual_output) ==
    IF actual_output # None /\ RLt(m.thresholds.deviation_critical, RAbs(deviation))
    THEN <<Rec("High", "significant_underperformance")>>
    ELSE IF actual_output # None /\ RLt(m.thresholds.deviation_warning, RAbs(deviation))
    THEN <<Rec("Medium", "output_below_expected")>>
    ELSE <<>>

DeviationRule(m, deviation, actual_output) ==
    IF actual_output # None /\ RLt(deviation, RNeg(m.thresholds.deviation_critical))
    THEN <<Rec("High", "significant_underperformance")>>
    ELSE IF actual_output # None /\ RLt(deviation, RNeg(m.thresholds.deviation_warning))
    THEN <<Rec("Medium", "output_below_expected")>>
    ELSE <<>>

IrradianceRule(inputs) ==
    IF RLt(Get(inputs, "irradiance", I(800)), I(200))
    THEN <<Rec("Info", "low_irradiance")>>
    ELSE <<>>

\* An insertion that puts an entry before the entries of its own priority.
RECURSIVE InsertBeforeEqual(_, _)
InsertBeforeEqual(sorted, x) ==
    IF sorted = <<>> THEN <<x>>
    ELSE IF PriorityOrder(x.priority) <= PriorityOrder(Head(sorted).priority)
    THEN <<x>> \o sorted
    ELSE <<Head(sorted)>> \o InsertBeforeEqual(Tail(sorted), x)

\* recommendations.sort(key=priority rank): list.sort is stable.
RECURSIVE InsertByPriority(_, _)
InsertByPriority(sorted, x) ==
    IF sorted = <<>> THEN <<x>>
    ELSE IF PriorityOrder(x.priority) < PriorityOrder(Head(sorted).priority)
    THEN <<x>> \o sorted
    ELSE <<Head(sorted)>> \o InsertByPriority(Tail(sorted), x)

RECURSIVE SortByPriority(_)
SortByPriority(recs) ==
    IF recs = <<>> THEN <<>>
    ELSE InsertByPriority(SortByPriority(SubSeq(recs, 1, Len(recs) - 1)),
                          recs[Len(recs)])

\* recommendations[:6]
Top6(recs) == SubSeq(recs, 1, IF Len(recs) < 6 THEN Len(recs) ELSE 6)

\* The list the six rules have appended to, before it is sorted and cut.
AppendRecommendations(m, inputs, deviation, actual_output) ==
    PanelTempRule(m, inputs) \o SoilingRule(m, inputs) \o InverterRule(m, inputs)
    \o BatteryRule(m, inputs) \o DeviationRule(m, deviation, actual_output)
    \o IrradianceRule(inputs)

GenerateRecommendations(m, inputs, deviation, actual_output) ==
    Top6(SortByPriority(AppendRecommendations(m, inputs, deviation, actual_output)))

\* _calculate_weather_impact
CalculateWeatherImpact(irradiance, wind_speed, ambient_temp) ==
    LET irradiance_score == RMin(I(100), RMul(RDiv(irradiance, I(1000)), I(100)))
        wind_score ==
            IF RLe(I(2), wind_speed) /\ RLe(wind_speed, I(4)) THEN I(100)
            ELSE RMax(I(0), RSub(I(100), RMul(RAbs(RSub(wind_speed, I(3))), I(10))))
        temp_score ==
            RMax(I(0), RSub(I(100), RMul(RAbs(RSub(ambient_temp, I(25))), I(2))))
        weather_score ==
            RAdd(RAdd(RMul(irradiance_score, R(6, 10)), RMul(wind_score, R(2, 10))),
                 RMul(temp_score, R(2, 10)))
    IN  Round(weather_score, 10)

\* _calculate_battery_health: the first adjustment is overwritten by the
\* bucket that follows it.
CalculateBatteryHealth(soc) ==
    LET penalised == IF RLt(soc, I(20)) \/ RLt(I(95), soc) THEN I(90) ELSE I(100)
        health_score ==
            IF RLe(I(30), soc) /\ RLe(soc, I(80)) THEN I(100)
            ELSE IF \/ RLe(I(20), soc) /\ RLt(soc, I(30))
                    \/ RLt(I(80), soc) /\ RLe(soc, I(90))
            THEN I(95)
            ELSE I(85)
    IN  Round(health_score, 10)

\* The locals of predict_output before the result is assembled.
Locals(m, inputs) ==
    LET actual_output    == GetActual(inputs)
        predicted_output == PredictedOutput(inputs)
        deviation        == Deviation(actual_output, predicted_output)
    IN  [ actual_output    |-> actual_output,
          predicted_output |-> predicted_output,
          deviation        |-> deviation,
          temp_correction  |-> TempCorrection(Get(inputs, "panel_temp", I(35))),
          fault_prob       |-> CalculateFaultProbability(m, inputs, deviation),
          recommendations  |->
              GenerateRecommendations(m, inputs, deviation, actual_output) ]

\* predict_output: the result dictionary.
PredictOutput(m, inputs) ==
    LET l == Locals(m, inputs)
    IN  [ predicted_output |-> Round(l.predicted_output, 100),
          actual_output    |-> IF l.actual_output # None THEN l.actual_output[1]
                               ELSE l.predicted_output,
          deviation        |-> Round(l.deviation, 100),
          fault_prob       |-> Round(l.fault_prob, 1000),
          top_factors      |-> GetTopInfluenceFactors(m),
          recommendations  |-> l.recommendations,
          weather_impact_score |->
              CalculateWeatherImpact(Get(inputs, "irradiance", I(0)),
                                     Get(inputs, "wind_speed", I(2)),
                                     Get(inputs, "ambient_temp", I(25))),
          battery_health_score |->
              CalculateBatteryHealth(Get(inputs, "battery_soc", I(70))),
          performance_metrics |->
              [ temp_correction   |-> Round(l.temp_correction, 1000),
                soiling_factor    |->
                    Round(SoilingFactor(Get(inputs, "soiling_index", I(2))), 1000),
                inverter_factor   |->
                    Round(InverterFactor(Get(inputs, "inverter_eff", I(96))), 1000),
                irradiance_factor |->
                    Round(IrradianceFactor(Get(inputs, "irradiance", I(0))), 1000) ] ]

-----------------------------------------------------------------------------
(* Telemetry records and request bodies the clients may send.              *)

\* JSON values as the handlers see them after request.get_json().
Obj(v) == [type |-> "object", v |-> v]

Null == [type |-> "null"]

Str(v) == [type |-> "string", text |-> v]

RequiredFields == <<"irradiance", "ambient_temp", "panel_temp">>

\* Rule thresholds on both sides: panel temperature, soiling, inverter
\* efficiency, battery charge, and the deviation through actual_output.
RuleTelemetry ==
    { [ irradiance |-> irr, ambient_temp |-> I(25), panel_temp |-> pt,
        soiling_index |-> so, inverter_eff |-> ie, battery_soc |-> soc ] :
        irr \in {I(150), I(1000)}, pt \in {I(25), I(70), I(80), I(110)},
        so \in {I(2), I(5), I(10)}, ie \in {I(90), I(96)},
        soc \in {I(5), I(15), I(50)} }

ActualOutputs == {I(0), I(10), I(50), I(60), I(200)}

\* Panel temperature, soiling and inverter efficiency exactly at their
\* thresholds and just past them.
ThresholdTelemetry ==
    { [ irradiance |-> I(1000), ambient_temp |-> I(25), panel_temp |-> pt,
        soiling_index |-> so, inverter_eff |-> ie ] :
        pt \in {I(65), I(66), I(75), I(76)}, so \in {I(5), I(6), I(8), I(9)},
        ie \in {I(93), I(94)} }

\* predicted_output is exactly 50 kW here, so the deviation reaches the
\* thresholds -20, -10, 10 and 20 exactly and on either side.
BoundaryTelemetry ==
    { [ irradiance |-> I(1000), ambient_temp |-> I(25), panel_temp |-> I(25),
        soiling_index |-> I(0), inverter_eff |-> I(100), pr_baseline |-> R(1, 2),
        actual_output |-> a ] :
        a \in {I(39), I(40), I(41), I(44), I(45), I(46), I(50),
               I(54), I(55), I(56), I(59), I(60), I(61)} }

WeatherTelemetry ==
    { [ irradiance |-> irr, ambient_temp |-> at, panel_temp |-> I(35),
        wind_speed |-> ws ] :
        irr \in {I(-500), I(0), I(500), I(1000), I(1200)},
        at \in {I(-30), I(25), I(32), I(80)},
        ws \in {I(0), I(2), R(23, 10), I(4), I(15)} }

BatteryTelemetry ==
    { [ irradiance |-> I(800), ambient_temp |-> I(25), panel_temp |-> I(35),
        battery_soc |-> soc ] :
        soc \in {I(0), I(10), I(19), I(20), I(29), I(30), I(80), I(81), I(90),
                 I(91), I(95), I(96), I(100)} }

\* Non-negative inputs at the edges of their ranges.
EdgeTelemetry ==
    { [ irradiance |-> irr, ambient_temp |-> I(25), panel_temp |-> I(35),
        soiling_index |-> so, inverter_eff |-> ie, pr_baseline |-> pr,
        system_capacity |-> cap, actual_output |-> I(10) ] :
        irr \in {I(0), I(1000)}, so \in {I(0), I(100), I(150)},
        ie \in {I(0), I(100)}, pr \in {I(0), R(4, 5)}, cap \in {I(0), I(100)} }

\* Records lacking some of the required fields, down to the empty record.
PartialTelemetry ==
    { [ f \in fs |-> IF f = "irradiance" THEN I(100) ELSE I(30) ] :
        fs \in SUBSET {"irradiance", "ambient_temp", "panel_temp", "battery_soc"} }

Telemetry ==
    RuleTelemetry
    \cup { t @@ [actual_output |-> a] : t \in RuleTelemetry, a \in ActualOutputs }
    \cup BoundaryTelemetry \cup WeatherTelemetry \cup BatteryTelemetry
    \cup EdgeTelemetry \cup PartialTelemetry \cup ThresholdTelemetry

AnalysisBodies ==
    { [site_id |-> "SGX-1", inputs |-> Obj(t)] : t \in Telemetry }
    \cup { [inputs |-> Obj(t)] : t \in PartialTelemetry }
    \cup { [site_id |-> "SGX-1", inputs |-> Null], [site_id |-> "SGX-1"] }

-----------------------------------------------------------------------------
(* app.py: the Flask handlers                                              *)

NoResponse == [status |-> 0]

\* The first required field that is missing, as the validation loop finds it.
FirstMissing(inputs) ==
    LET missing == SelectSeq(RequiredFields, LAMBDA f : f \notin DOMAIN inputs)
    IN  IF missing = <<>> THEN None ELSE Some(Head(missing))

\* analyze_performance: POST /api/ai_analysis
AnalyzePerformanceReply(m, data) ==
    IF "inputs" \notin DOMAIN data
    THEN [status |-> 400, error |-> "Missing inputs in request body"]
    ELSE IF data.inputs.type # "object"
    THEN [status |-> 500, error |-> "TypeError"]
    ELSE IF FirstMissing(data.inputs.v) # None
    THEN [status |-> 400, error |-> "Missing required field",
          field |-> FirstMissing(data.inputs.v)[1]]
    ELSE [status |-> 200,
          body |-> PredictOutput(m, data.inputs.v)
                   @@ [site_id |-> Get(data, "site_id", "unknown")]]

AnalyzePerformance ==
    /\ request.endpoint = "ai_analysis"
    /\ response = NoResponse
    /\ response' = AnalyzePerformanceReply(model_instance, request.data)
    /\ frame' = IF response'.status = 200
                THEN Some(Locals(model_instance, request.data.inputs.v))
                ELSE None
    /\ UNCHANGED <<model_instance, request, calls>>

\* One item of the batch: its own try/except around predict_output.
BatchItem(m, site_data) ==
    LET site_id == Get(site_data, "site_id", "unknown")
        inputs  == Get(site_data, "inputs", Obj(<<>>))
    IN  IF inputs.type # "object"
        THEN [site_id |-> site_id, status |-> "error", error |-> "AttributeError"]
        ELSE PredictOutput(m, inputs.v)
             @@ [site_id |-> site_id, status |-> "success"]

\* sum(1 for r in results if r.get('status') == 'success')
Successful(results) ==
    Len(SelectSeq(results, LAMBDA r : r.status = "success"))

\* batch_analyze: POST /api/batch_analysis.  site_data.get on an item that is
\* not an object raises outside the per-item try and ends the whole request.
BatchAnalyzeReply(m, data) ==
    IF "sites" \notin DOMAIN data
    THEN [status |-> 400, error |-> "Missing sites array in request body"]
    ELSE IF \E i \in 1..Len(data.sites) : data.sites[i].type # "object"
    THEN [status |-> 500, error |-> "AttributeError"]
    ELSE LET results == [i \in 1..Len(data.sites) |-> BatchItem(m, data.sites[i].v)]
         IN  [status |-> 200,
              body |-> [results    |-> results,
                        total      |-> Len(results),
                        successful |-> Successful(results)]]

BatchAnalyze ==
    /\ request.endpoint = "batch_analysis"
    /\ response = NoResponse
    /\ response' = BatchAnalyzeReply(model_instance, request.data)
    /\ UNCHANGED <<model_instance, request, frame, calls>>

MaxSites == 3

CompleteRecord ==
    [ irradiance |-> I(1000), ambient_temp |-> I(25), panel_temp |-> I(80),
      battery_soc |-> I(5), actual_output |-> I(10) ]

BatchItems ==
    { Obj([site_id |-> "SGX-1", inputs |-> Obj(CompleteRecord)]),
      Obj([site_id |-> "SGX-2", inputs |-> Obj([battery_soc |-> I(50)])]),
      Obj([site_id |-> "SGX-3", inputs |-> Obj([irradiance |-> I(100),
                                                 panel_temp |-> I(30)])]),
      Obj([site_id |-> "SGX-4"]),
      Obj([inputs |-> Null]),
      Str("SGX-6"),
      Null }

BatchBodies ==
    { [sites |-> s] : s \in UNION { [1..n -> BatchItems] : n \in 0..MaxSites } }
    \cup { [site_id |-> "SGX-1"] }

-----------------------------------------------------------------------------
(* main.py: the FastAPI service                                            *)

MinSeriesPoints == 24

MinResidualPoints == 7

\* np.mean of a non-empty list
Mean(values) == RDiv(RSum(values), I(Len(values)))

\* A profile built from the first 24-hour cycle alone.
HourValuesFirstCycle(ac_values, i) == <<ac_values[i + 1]>>

\* [ac_values[j] for j in range(i, len(ac_values), 24)], i counted from 0
HourValues(ac_values, i) ==
    LET count == (Len(ac_values) - i + 23) \div 24
    IN  [k \in 1..count |-> ac_values[i + 1 + 24 * (k - 1)]]

DailyPattern(ac_values) ==
    [h \in 1..(IF Len(ac_values) < 24 THEN Len(ac_values) ELSE 24) |->
        Mean(HourValues(ac_values, h - 1))]

\* One entry of the forecast; date is the day number of the forecast day.
ForecastPoint(base_date, day, daily_total, adjustment) ==
    LET predicted == RMul(daily_total, adjustment)
    IN  [ date        |-> base_date + day,
          ac_kw_hat   |-> Round(RMax(I(0), predicted), 100),
          lower_bound |-> Round(RMax(I(0), RMul(predicted, R(85, 100))), 100),
          upper_bound |-> Round(RMul(predicted, R(115, 100)), 100) ]

\* simple_seasonal_forecast(data, forecast_days); adjustments[day] is that
\* day's draw of 0.95 + random() * 0.1.
SimpleSeasonalForecast(data, forecast_days, adjustments) ==
    LET ac_values   == [i \in 1..Len(data) |-> data[i].ac_kw]
        daily_total == RSum(DailyPattern(ac_values))
        base_date   == data[Len(data)].ts.day
    IN  [ forecast   |-> [day \in 1..forecast_days |->
                            ForecastPoint(base_date, day, daily_total,
                                          adjustments[day])],
          confidence |-> R(78, 100) ]

\* forecast_power: POST /forecast_power.  The HTTPException(400) is raised
\* inside the try whose except clause turns every exception into a 500.
ForecastPowerReply(req, adjustments) ==
    IF Len(req.data) < MinSeriesPoints
    THEN [status |-> 500, detail |-> "400: Need at least 24 hours of data"]
    ELSE IF ~req.data[Len(req.data)].ts.valid
    THEN [status |-> 500, detail |-> "Invalid isoformat string"]
    ELSE [status |-> 200,
          body |-> SimpleSeasonalForecast(req.data, req.forecast_days, adjustments)
                   @@ [model_used |-> "seasonal_pattern"]]

\* Values 0.95 + random() * 0.1 can take, random() being in [0, 1).
Adjustments == {R(95, 100), I(1), R(1049, 1000)}

ForecastPower ==
    /\ request.endpoint = "forecast_power"
    /\ response = NoResponse
    /\ \E adjustments \in [1..request.forecast_days -> Adjustments] :
           response' = ForecastPowerReply(request, adjustments)
    /\ UNCHANGED <<model_instance, request, frame, calls>>

RECURSIVE InsertSorted(_, _)
InsertSorted(sorted, x) ==
    IF sorted = <<>> THEN <<x>>
    ELSE IF RLt(x, Head(sorted)) THEN <<x>> \o sorted
    ELSE <<Head(sorted)>> \o InsertSorted(Tail(sorted), x)

RECURSIVE Sorted(_)
Sorted(values) ==
    IF values = <<>> THEN <<>>
    ELSE InsertSorted(Sorted(Tail(values)), Head(values))

\* np.percentile(values, q): linear interpolation between the two closest
\* ranks of the sorted values.
Percentile(values, q) ==
    LET sorted == Sorted(values)
        pos    == RMul(R(q, 100), I(Len(values) - 1))
        lo     == pos.n \div pos.d
        frac   == RSub(pos, I(lo))
    IN  IF lo + 1 >= Len(values) THEN sorted[lo + 1]
        ELSE RAdd(sorted[lo + 1],
                  RMul(frac, RSub(sorted[lo + 2], sorted[lo + 1])))

Residual(point) == RAbs(RSub(point.actual, point.predicted))

\* threshold = q3 + 1.5 * iqr
Threshold(residuals) ==
    LET res_values == [i \in 1..Len(residuals) |-> Residual(residuals[i])]
        q1 == Percentile(res_values, 25)
        q3 == Percentile(res_values, 75)
    IN  RAdd(q3, RMul(R(3, 2), RSub(q3, q1)))

\* A fence that also flags a residual equal to the threshold.
IsAnomalyInclusive(point, threshold) == RLe(threshold, Residual(point))

IsAnomaly(point, threshold) == RLt(threshold, Residual(point))

\* min(1.0, residual / (threshold * 2)); dividing a positive residual by a
\* numpy zero gives inf, of which the minimum with 1.0 is 1.0.
Score(residual, threshold) ==
    IF threshold.n = 0 THEN I(1)
    ELSE RMin(I(1), RDiv(residual, RMul(threshold, I(2))))

AnomalyRecord(point, threshold) ==
    [ start     |-> point.ts,
      end       |-> point.ts,
      score     |-> Round(Score(Residual(point), threshold), 1000),
      type      |-> "statistical_outlier",
      magnitude |-> Round(Residual(point), 100) ]

\* detect_anomalies_isolation_forest(residuals)
DetectAnomaliesIsolationForest(residuals) ==
    IF residuals = <<>> THEN [anomalies |-> <<>>, anomaly_rate |-> I(0)]
    ELSE LET threshold == Threshold(residuals)
             flagged   == SelectSeq(residuals, LAMBDA p : IsAnomaly(p, threshold))
         IN  [ anomalies    |-> [i \in 1..Len(flagged) |->
                                    AnomalyRecord(flagged[i], threshold)],
               anomaly_rate |-> R(Len(flagged), Len(residuals)) ]

\* detect_anomalies: POST /detect_anomalies, with the same try/except.
DetectAnomaliesReply(req) ==
    IF Len(req.residuals) < MinResidualPoints
    THEN [status |-> 500, detail |-> "400: Need at least 7 data points"]
    ELSE LET found == DetectAnomaliesIsolationForest(req.residuals)
         IN  [status |-> 200,
              body |-> [ anomalies    |-> found.anomalies,
                         anomaly_rate |-> Round(found.anomaly_rate, 1000),
                         method       |-> "iqr_statistical" ]]

DetectAnomalies ==
    /\ request.endpoint = "detect_anomalies"
    /\ response = NoResponse
    /\ response' = DetectAnomaliesReply(request)
    /\ frame' = IF response'.status = 200
                THEN Some(DetectAnomaliesIsolationForest(request.residuals))
                ELSE None
    /\ UNCHANGED <<model_instance, request, calls>>

MaxExtraPoints == 1

MaxDays == 2

Timestamp(hour) == [valid |-> TRUE, day |-> hour \div 24, hour |-> hour % 24]

\* An hourly series of n points from hour `start`: value a at every k-th
\* point, b at the others.
Series(n, start, k, a, b) ==
    [i \in 1..n |-> [ ts    |-> Timestamp(start + i - 1),
                      ac_kw |-> IF (i - 1) % k = 0 THEN a ELSE b ]]

SeriesLengths ==
    {0, 1, 48, 49}
    \cup (MinSeriesPoints - 1)..(MinSeriesPoints + MaxExtraPoints)

AcValues == {I(-2), I(0), I(5), R(7, 2)}

SeriesSet ==
    { Series(n, start, k, a, b) :
        n \in SeriesLengths, start \in {0, 20}, k \in {1, 3, 5, 24},
        a \in AcValues, b \in AcValues }

\* The same series with a last timestamp that datetime.fromisoformat rejects.
BadTimestamp(series) ==
    [series EXCEPT ![Len(series)].ts.valid = FALSE]

ForecastRequests ==
    { [endpoint |-> "forecast_power", data |-> s, forecast_days |-> days] :
        s \in SeriesSet, days \in 0..MaxDays }
    \cup { [endpoint |-> "forecast_power", data |-> BadTimestamp(s),
            forecast_days |-> 1] :
            s \in { Series(n, 0, 1, I(5), I(5)) : n \in SeriesLengths \ {0} } }

\* n residual points around a prediction of 5: residual b everywhere but
\* s1 at position p1 and s2 at position p2; actual lies above the prediction
\* at odd positions and below it at even ones.
ResidualList(n, b, p1, s1, p2, s2) ==
    [i \in 1..n |->
        LET r == IF i = p1 THEN s1 ELSE IF i = p2 THEN s2 ELSE b
        IN  [ ts        |-> i,
              actual    |-> IF i % 2 = 1 THEN RAdd(I(5), r) ELSE RSub(I(5), r),
              predicted |-> I(5) ]]

ResidualLengths ==
    {0} \cup (MinResidualPoints - 1)..(MinResidualPoints + MaxExtraPoints)

ResidualValues == {I(0), I(1), I(3), I(4), I(10), R(7, 2)}

ResidualLists ==
    { ResidualList(n, b, p1, s1, p2, s2) :
        n \in ResidualLengths, b \in {I(0), I(1), I(3)},
        p1 \in 1..3, s1 \in ResidualValues,
        p2 \in 6..(MinResidualPoints + MaxExtraPoints), s2 \in ResidualValues }

AnomalyRequests ==
    { [endpoint |-> "detect_anomalies", residuals |-> r] : r \in ResidualLists }

Requests ==
    { [endpoint |-> "ai_analysis", data |-> d] : d \in AnalysisBodies }
    \cup { [endpoint |-> "batch_analysis", data |-> d] : d \in BatchBodies }
    \cup ForecastRequests
    \cup AnomalyRequests

-----------------------------------------------------------------------------
(* Concurrent predict_output calls on the shared model instance, one per    *)
(* worker thread of the Flask service, interleaved statement by statement.  *)

NumWorkers == 2

Workers == 1..NumWorkers

Idle == [pc |-> "idle"]

ConcurrentTelemetry ==
    { CompleteRecord,
      [irradiance |-> I(100), panel_temp |-> I(30)],
      [ irradiance |-> I(1000), ambient_temp |-> I(25), panel_temp |-> I(25),
        soiling_index |-> I(0), inverter_eff |-> I(100), pr_baseline |-> R(1, 2),
        actual_output |-> I(44) ],
      [ irradiance |-> I(1000), ambient_temp |-> I(25), panel_temp |-> I(70),
        soiling_index |-> I(10), inverter_eff |-> I(90), battery_soc |-> I(15),
        actual_output |-> I(60) ] }

\* A request thread enters predict_output(inputs); submitted is the caller's
\* record as it was when the call was made.
CallEnter(w) ==
    /\ calls[w].pc = "idle"
    /\ \E t \in ConcurrentTelemetry :
           calls' = [calls EXCEPT ![w] =
                        [pc |-> "predict", inputs |-> t, submitted |-> t]]
    /\ UNCHANGED <<model_instance, request, response, frame>>

\* Feature extraction, predicted_output and deviation.
CallPredict(w) ==
    /\ calls[w].pc = "predict"
    /\ LET c == calls[w]
           actual_output    == GetActual(c.inputs)
           predicted_output == PredictedOutput(c.inputs)
       IN  calls' = [calls EXCEPT ![w] =
               [pc |-> "fault", inputs |-> c.inputs, submitted |-> c.submitted,
                actual_output |-> actual_output,
                predicted_output |-> predicted_output,
                deviation |-> Deviation(actual_output, predicted_output)]]
    /\ UNCHANGED <<model_instance, request, response, frame>>

\* The fault step of a model that keeps the largest deviation it has seen as
\* its warning threshold.
CallFaultRecalibrating(w) ==
    /\ calls[w].pc = "fault"
    /\ calls' = [calls EXCEPT ![w] =
           [pc |-> "factors",
            fault_prob |->
                CalculateFaultProbability(model_instance, calls[w].inputs,
                                          calls[w].deviation)]
           @@ calls[w]]
    /\ model_instance' =
           [model_instance EXCEPT !.thresholds.deviation_warning =
                RMax(@, RAbs(calls[w].deviation))]
    /\ UNCHANGED <<request, response, frame>>

\* fault_prob = self._calculate_fault_probability(inputs, deviation)
CallFault(w) ==
    /\ calls[w].pc = "fault"
    /\ calls' = [calls EXCEPT ![w] =
           [pc |-> "factors",
            fault_prob |->
                CalculateFaultProbability(model_instance, calls[w].inputs,
                                          calls[w].deviation)]
           @@ calls[w]]
    /\ UNCHANGED <<model_instance, request, response, frame>>

\* top_factors = self._get_top_influence_factors(inputs)
CallFactors(w) ==
    /\ calls[w].pc = "factors"
    /\ calls' = [calls EXCEPT ![w] =
           [pc |-> "recommend",
            top_factors |-> GetTopInfluenceFactors(model_instance)]
           @@ calls[w]]
    /\ UNCHANGED <<model_instance, request, response, frame>>

\* recommendations = self._generate_recommendations(inputs, deviation, actual_output)
CallRecommend(w) ==
    /\ calls[w].pc = "recommend"
    /\ calls' = [calls EXCEPT ![w] =
           [pc |-> "assemble",
            recommendations |->
                GenerateRecommendations(model_instance, calls[w].inputs,
                                        calls[w].deviation, calls[w].actual_output)]
           @@ calls[w]]
    /\ UNCHANGED <<model_instance, request, response, frame>>

\* The two scores and the result dictionary.
CallAssemble(w) ==
    /\ calls[w].pc = "assemble"
    /\ LET c == calls[w]
           whole == PredictOutput(model_instance, c.inputs)
       IN  calls' = [calls EXCEPT ![w] =
               [pc |-> "done", inputs |-> c.inputs, submitted |-> c.submitted,
                result |->
                    [ predicted_output |-> Round(c.predicted_output, 100),
                      actual_output    |-> IF c.actual_output # None
                                           THEN c.actual_output[1]
                                           ELSE c.predicted_output,
                      deviation        |-> Round(c.deviation, 100),
                      fault_prob       |-> Round(c.fault_prob, 1000),
                      top_factors      |-> c.top_factors,
                      recommendations  |-> c.recommendations,
                      weather_impact_score |-> whole.weather_impact_score,
                      battery_health_score |-> whole.battery_health_score,
                      performance_metrics  |-> whole.performance_metrics ]]]
    /\ UNCHANGED <<model_instance, request, response, frame>>

\* The caller takes the result; the thread serves its next request.
CallReturn(w) ==
    /\ calls[w].pc = "done"
    /\ calls' = [calls EXCEPT ![w] = Idle]
    /\ UNCHANGED <<model_instance, request, response, frame>>

-----------------------------------------------------------------------------

Init ==
    /\ model_instance = NewModel
    /\ request \in Requests
    /\ response = NoResponse
    /\ frame = None
    /\ calls = [w \in Workers |-> Idle]

Next ==
    \/ AnalyzePerformance
    \/ BatchAnalyze
    \/ ForecastPower
    \/ DetectAnomalies

Spec == Init /\ [][Next]_vars

InitConcurrent ==
    /\ model_instance = NewModel
    /\ request = [endpoint |-> "ai_analysis"]
    /\ response = NoResponse
    /\ frame = None
    /\ calls = [w \in Workers |-> Idle]

NextConcurrent ==
    \E w \in Workers :
        \/ CallEnter(w)
        \/ CallPredict(w)
        \/ CallFault(w)
        \/ CallFactors(w)
        \/ CallRecommend(w)
        \/ CallAssemble(w)
        \/ CallReturn(w)

SpecConcurrent == InitConcurrent /\ [][NextConcurrent]_vars

-----------------------------------------------------------------------------
(* Properties                                                              *)

Analysed == request.endpoint = "ai_analysis" /\ response.status = 200

BatchAnswered == request.endpoint = "batch_analysis" /\ response.status = 200

\* The telemetry of the analysed request and the locals of its call.
AnalysedInputs == request.data.inputs.v

AnalysedLocals == frame[1]

\* The position of the rule a recommendation comes from, in evaluation order.
RuleIndex(rec) ==
    CASE rec.msg \in {"panel_over_temperature", "panel_temperature_elevated"} -> 1
      [] rec.msg \in {"heavy_soiling", "moderate_soiling"} -> 2
      [] rec.msg = "inverter_below_baseline" -> 3
      [] rec.msg \in {"battery_critically_low", "battery_low", "battery_stable"} -> 4
      [] rec.msg \in {"significant_underperformance", "output_below_expected"} -> 5
      [] rec.msg = "low_irradiance" -> 6

PriorityRank(rec) ==
    CASE rec.priority = "Critical" -> 0
      [] rec.priority = "High"     -> 1
      [] rec.priority = "Medium"   -> 2
      [] rec.priority = "Info"     -> 3

OrderedRecommendations(recs) ==
    /\ Len(recs) <= 6
    /\ \A i, j \in 1..Len(recs) :
          i < j =>
            /\ PriorityRank(recs[i]) <= PriorityRank(recs[j])
            /\ PriorityRank(recs[i]) = PriorityRank(recs[j])
                   => RuleIndex(recs[i]) < RuleIndex(recs[j])

\* Every recommendation list a reply carries: the analysis reply's, and those
\* of the successful items of a batch reply.
ReturnedRecommendations ==
    IF Analysed THEN {response.body.recommendations}
    ELSE IF BatchAnswered
    THEN { response.body.results[i].recommendations :
             i \in { k \in 1..Len(response.body.results) :
                       response.body.results[k].status = "success" } }
    ELSE {}

\* C1: every returned recommendation list is ordered by non-decreasing
\* priority rank, has at most 6 entries, and keeps entries of equal priority
\* in the order in which their rules were evaluated.
C1_RecommendationsOrdered ==
    \A recs \in ReturnedRecommendations : OrderedRecommendations(recs)

\* All six rules fired, the sort moved an entry ahead of an earlier rule's,
\* and two entries share a priority.
C1_Witness ==
    /\ Analysed
    /\ LET recs == response.body.recommendations
       IN  /\ Len(recs) = 6
           /\ \E i, j \in 1..6 : i < j /\ RuleIndex(recs[i]) > RuleIndex(recs[j])
           /\ \E i, j \in 1..6 : i < j /\ PriorityRank(recs[i]) = PriorityRank(recs[j])

\* The ranges the data model gives the telemetry fields (absent fields take
\* their defaults, which lie in range).
ValidTelemetry(inputs) ==
    /\ RLe(I(0), Get(inputs, "irradiance", I(0)))
    /\ RLe(I(0), Get(inputs, "wind_speed", I(2)))
    /\ RLe(I(0), Get(inputs, "soiling_index", I(2)))
    /\ RLe(I(0), Get(inputs, "battery_soc", I(70)))
    /\ RLe(Get(inputs, "battery_soc", I(70)), I(100))
    /\ RLe(I(0), Get(inputs, "inverter_eff", I(96)))
    /\ RLe(Get(inputs, "inverter_eff", I(96)), I(100))

NonNegativeInputs(inputs) ==
    \A f \in {"irradiance", "soiling_index", "inverter_eff", "pr_baseline",
              "system_capacity"} :
        f \in DOMAIN inputs => RLe(I(0), inputs[f])

\* C7 as stated: predicted_output is non-negative whenever the inputs are
\* non-negative, the soiling index being otherwise unbounded.
C7_NonNegativeAsStated ==
    (Analysed /\ NonNegativeInputs(AnalysedInputs)) =>
        RLe(I(0), AnalysedLocals.predicted_output)

\* C7 (amended): predicted_output is non-negative whenever the inputs are
\* non-negative and the soiling index is at most 100 percent.
C7_NonNegativeUpTo100 ==
    ( /\ Analysed
      /\ NonNegativeInputs(AnalysedInputs)
      /\ RLe(Get(AnalysedInputs, "soiling_index", I(2)), I(100)) ) =>
        /\ RLe(I(0), AnalysedLocals.predicted_output)
        /\ RLe(I(0), response.body.predicted_output)

\* Non-negative inputs with the soiling index at its largest admissible value.
C7_Witness ==
    /\ Analysed
    /\ NonNegativeInputs(AnalysedInputs)
    /\ Get(AnalysedInputs, "soiling_index", I(2)) = I(100)
    /\ RLt(I(0), Get(AnalysedInputs, "irradiance", I(0)))
    /\ RLt(I(0), Get(AnalysedInputs, "inverter_eff", I(96)))
    /\ RLt(I(0), Get(AnalysedInputs, "system_capacity", I(100)))
    /\ RLt(I(0), Get(AnalysedInputs, "pr_baseline", R(4, 5)))

DeviationMessages == {"significant_underperformance", "output_below_expected"}

\* C8: the deviation is (actual - predicted) / predicted * 100 when
\* actual_output is supplied and predicted_output > 0, and exactly 0 in every
\* other case; a zero or negative prediction adds no deviation increment to
\* fault_prob and yields no deviation recommendation.
C8_DeviationGuarded ==
    Analysed =>
        LET l         == AnalysedLocals
            supplied  == "actual_output" \in DOMAIN AnalysedInputs
            predicted == l.predicted_output
        IN  /\ (supplied /\ predicted.n > 0) =>
                   l.deviation =
                       R((AnalysedInputs.actual_output.n * predicted.d
                            - predicted.n * AnalysedInputs.actual_output.d) * 100,
                         predicted.n * AnalysedInputs.actual_output.d)
            /\ (~supplied \/ predicted.n <= 0) =>
                   /\ l.deviation = I(0)
                   /\ response.body.deviation = I(0)
            /\ predicted.n <= 0 =>
                   /\ l.fault_prob =
                          RMin(I(1),
                               RAdd(RAdd(PanelTempFault(model_instance, AnalysedInputs),
                                         SoilingFault(model_instance, AnalysedInputs)),
                                    InverterFault(model_instance, AnalysedInputs)))
                   /\ \A i \in 1..Len(l.recommendations) :
                          l.recommendations[i].msg \notin DeviationMessages

\* actual_output supplied against a negative prediction.
C8_Witness ==
    /\ Analysed
    /\ "actual_output" \in DOMAIN AnalysedInputs
    /\ AnalysedLocals.predicted_output.n < 0
    /\ AnalysedLocals.deviation = I(0)

\* Whether a batch item's telemetry (an absent inputs key gives {}) lacks a
\* required field.
LacksRequired(site) ==
    LET inputs == Get(site.v, "inputs", Obj(<<>>))
    IN  inputs.type = "object" /\ FirstMissing(inputs.v) # None

\* C2: a record lacking irradiance, ambient_temp or panel_temp is rejected
\* with a validation error and no prediction is computed for it, submitted
\* alone (status 400) or as an item of a batch (status error, never success).
C2_MissingFieldRejected ==
    /\ ( /\ request.endpoint = "ai_analysis"
         /\ response # NoResponse
         /\ "inputs" \in DOMAIN request.data
         /\ request.data.inputs.type = "object"
         /\ FirstMissing(request.data.inputs.v) # None )
       => (response.status = 400 /\ frame = None)
    /\ BatchAnswered =>
         \A i \in 1..Len(request.data.sites) :
            LacksRequired(request.data.sites[i]) =>
                /\ response.body.results[i].status = "error"
                /\ "predicted_output" \notin DOMAIN response.body.results[i]

\* C3: whatever the items of the sites array are, the batch reply holds one
\* result per item in submission order, each marked success or error, with
\* total the number of items and successful the number marked success.
C3_BatchNeverAborts ==
    ( /\ request.endpoint = "batch_analysis"
      /\ response # NoResponse
      /\ "sites" \in DOMAIN request.data ) =>
        /\ response.status = 200
        /\ Len(response.body.results) = Len(request.data.sites)
        /\ \A i \in 1..Len(request.data.sites) :
              /\ response.body.results[i].status \in {"success", "error"}
              /\ request.data.sites[i].type = "object" =>
                     response.body.results[i].site_id
                         = Get(request.data.sites[i].v, "site_id", "unknown")
        /\ response.body.total = Len(request.data.sites)
        /\ response.body.successful =
               Cardinality({ i \in 1..Len(response.body.results) :
                               response.body.results[i].status = "success" })

\* C4: a series of fewer than 24 points and a residual list of fewer than 7
\* are rejected with the client-rejection status (400), which differs from
\* the status of an unexpected computation failure (500), and nothing is
\* computed; exactly 24 points and exactly 7 residuals succeed.
C4_UndersizedRejected ==
    /\ (request.endpoint = "forecast_power" /\ response # NoResponse) =>
          /\ Len(request.data) < MinSeriesPoints =>
                 (response.status = 400 /\ "body" \notin DOMAIN response)
          /\ ( /\ Len(request.data) = MinSeriesPoints
               /\ request.data[Len(request.data)].ts.valid )
                 => response.status = 200
          /\ ( /\ Len(request.data) >= MinSeriesPoints
               /\ ~request.data[Len(request.data)].ts.valid )
                 => response.status = 500
    /\ (request.endpoint = "detect_anomalies" /\ response # NoResponse) =>
          /\ Len(request.residuals) < MinResidualPoints =>
                 (response.status = 400 /\ "body" \notin DOMAIN response)
          /\ Len(request.residuals) = MinResidualPoints => response.status = 200

\* C5: every forecast point satisfies 0 <= lower_bound <= predicted <=
\* upper_bound, whatever the sign of the ac values and the adjustment drawn.
C5_ForecastBoundsOrdered ==
    (request.endpoint = "forecast_power" /\ response.status = 200) =>
        \A i \in 1..Len(response.body.forecast) :
            LET point == response.body.forecast[i]
            IN  /\ RLe(I(0), point.lower_bound)
                /\ RLe(point.lower_bound, point.ac_kw_hat)
                /\ RLe(point.ac_kw_hat, point.upper_bound)

\* C9: however predict_output calls on the shared instance interleave, none
\* changes the model's tables or the caller's telemetry record, and each
\* returns what a single call alone returns for the same telemetry.
C9_CallsIndependent ==
    /\ model_instance = NewModel
    /\ \A w \in Workers :
          calls[w].pc # "idle" =>
              /\ calls[w].inputs = calls[w].submitted
              /\ calls[w].pc = "done" =>
                     calls[w].result = PredictOutput(NewModel, calls[w].submitted)

\* One call has returned while another, on other telemetry, is between its
\* reads of the shared tables.
C9_Witness ==
    /\ calls[1].pc = "done"
    /\ calls[2].pc = "recommend"
    /\ calls[1].submitted # calls[2].submitted
    /\ calls[1].result.fault_prob # I(0)

AnomaliesAnswered == request.endpoint = "detect_anomalies" /\ response.status = 200

\* min(1.0, residual / (2 * threshold)), the quotient by a zero threshold
\* being infinite.
ExactScore(residual, threshold) ==
    IF threshold.n = 0 THEN I(1)
    ELSE LET q == R(residual.n * threshold.d, 2 * threshold.n * residual.d)
         IN  IF RLt(I(1), q) THEN I(1) ELSE q

\* The detector's report for the request, the score of a flagged point being
\* ExactScore rounded to `scale` when `rounded`, and ExactScore itself when not.
AnomalyReportIs(rounded, scale) ==
    LET points    == request.residuals
        magnitude == [i \in 1..Len(points) |->
                        RAbs(RSub(points[i].actual, points[i].predicted))]
        q1        == Percentile(magnitude, 25)
        q3        == Percentile(magnitude, 75)
        threshold == RAdd(q3, RMul(R(3, 2), RSub(q3, q1)))
        over      == { i \in 1..Len(points) : RLt(threshold, magnitude[i]) }
        \* the i-th flagged position, in input order
        nth(i)    == CHOOSE k \in over :
                        Cardinality({ j \in over : j <= k }) = i
        report    == frame[1]
    IN  /\ Len(report.anomalies) = Cardinality(over)
        /\ \A i \in 1..Len(report.anomalies) :
              LET a     == report.anomalies[i]
                  exact == ExactScore(magnitude[nth(i)], threshold)
              IN  /\ a.start = points[nth(i)].ts
                  /\ a.end = points[nth(i)].ts
                  /\ a.score = (IF rounded THEN Round(exact, scale) ELSE exact)
                  /\ RLe(I(0), a.score) /\ RLe(a.score, I(1))
        /\ report.anomaly_rate = R(Cardinality(over), Len(points))

\* C10 as stated: exactly the points whose residual exceeds
\* Q3 + 1.5 * (Q3 - Q1) are flagged, in input order, with start = end = the
\* point's timestamp, score = min(1.0, residual / (2 * threshold)) in [0, 1],
\* and anomaly_rate = flagged / points.
C10_ReportAsStated == AnomaliesAnswered => AnomalyReportIs(FALSE, 1000)

\* C10 (amended): as stated, the reported score being
\* min(1.0, residual / (2 * threshold)) rounded to three decimals.
C10_ReportRounded == AnomaliesAnswered => AnomalyReportIs(TRUE, 1000)

\* A flagged point whose score is below 1 beside points that are not flagged.
C10_Witness ==
    /\ AnomaliesAnswered
    /\ Len(frame[1].anomalies) >= 1
    /\ Len(frame[1].anomalies) < Len(request.residuals)
    /\ \E i \in 1..Len(frame[1].anomalies) : RLt(frame[1].anomalies[i].score, I(1))

-----------------------------------------------------------------------------
(* The seasonal forecast                                                   *)

ForecastAnswered ==
    request.endpoint = "forecast_power" /\ response.status = 200

\* The sum over hours h = 0..23 of the mean of the ac values at positions
\* h, h+24, h+48, ... of the series (positions counted from 0).
StatedDailyTotal(data) ==
    LET HourMean(h) ==
            LET positions == SelectSeq([j \in 1..Len(data) |-> j],
                                       LAMBDA j : (j - 1) % 24 = h)
            IN  RDiv(RSum([k \in 1..Len(positions) |-> data[positions[k]].ac_kw]),
                     I(Len(positions)))
    IN  RSum([k \in 1..24 |-> HourMean(k - 1)])

\* value = total * adjustment for some real adjustment in [0.95, 1.05]
InAdjustmentRange(value, total) ==
    LET a == RMul(total, R(95, 100))
        b == RMul(total, R(105, 100))
    IN  /\ RLe(RMin(a, b), value)
        /\ RLe(value, RMax(a, b))

\* d points, dated on the d days after the day of the last series point.
ForecastDated ==
    /\ Len(response.body.forecast) = request.forecast_days
    /\ \A i \in 1..Len(response.body.forecast) :
           response.body.forecast[i].date
               = request.data[Len(request.data)].ts.day + i

\* C11 as stated: an accepted series and a horizon of d days give exactly d
\* points dated on the d consecutive days after the last series point's date,
\* and each point's predicted value equals daily_total * adjustment for some
\* adjustment in [0.95, 1.05].
C11_ForecastAsStated ==
    ForecastAnswered =>
        /\ ForecastDated
        /\ \A i \in 1..Len(response.body.forecast) :
               InAdjustmentRange(response.body.forecast[i].ac_kw_hat,
                                 StatedDailyTotal(request.data))

\* C11 (amended): as stated, each point's predicted value being
\* max(0, daily_total * adjustment) rounded to two decimals for some
\* adjustment in [0.95, 1.05].
C11_ForecastClampedRounded ==
    ForecastAnswered =>
        /\ ForecastDated
        /\ \A i \in 1..Len(response.body.forecast) :
               \E adjustment \in Adjustments :
                   /\ RLe(R(95, 100), adjustment)
                   /\ RLe(adjustment, R(105, 100))
                   /\ response.body.forecast[i].ac_kw_hat
                        = Round(RMax(I(0), RMul(StatedDailyTotal(request.data),
                                                adjustment)), 100)

\* A two-day forecast from a series of more than two cycles whose values
\* differ from one cycle to the next, the positive predicted values of the
\* two days differing.
C11_Witness ==
    /\ ForecastAnswered
    /\ request.forecast_days = 2
    /\ Len(request.data) > 48
    /\ request.data[1].ac_kw # request.data[25].ac_kw
    /\ RLt(I(0), response.body.forecast[1].ac_kw_hat)
    /\ response.body.forecast[1].ac_kw_hat # response.body.forecast[2].ac_kw_hat

-----------------------------------------------------------------------------
(* The fault score                                                         *)

\* One increment per category, as the thresholds are documented.
StatedFaultSum(inputs, deviation) ==
    LET panel_temp   == Get(inputs, "panel_temp", I(35))
        soiling      == Get(inputs, "soiling_index", I(2))
        inverter_eff == Get(inputs, "inverter_eff", I(96))
        dev == IF RLt(I(20), RAbs(deviation)) THEN R(4, 10)
               ELSE IF RLt(I(10), RAbs(deviation)) THEN R(2, 10) ELSE I(0)
        tmp == IF RLt(I(75), panel_temp) THEN R(3, 10)
               ELSE IF RLt(I(65), panel_temp) THEN R(1, 10) ELSE I(0)
        soi == IF RLt(I(8), soiling) THEN R(2, 10) ELSE I(0)
        inv == IF RLt(inverter_eff, I(94)) THEN R(1, 10) ELSE I(0)
    IN  RAdd(RAdd(RAdd(dev, tmp), soi), inv)

\* C12: the fault score is the sum of one increment per category (deviation
\* 0.4 / 0.2 on |deviation| > 20 / > 10, panel temperature 0.3 / 0.1 on
\* > 75 / > 65, soiling 0.2 on > 8.0, inverter 0.1 on < 94.0, every
\* comparison strict), the sum never exceeds 1.0, and the clamp to 1.0 leaves
\* it unchanged.
C12_FaultScoreIsSum ==
    Analysed =>
        LET sum == StatedFaultSum(AnalysedInputs, AnalysedLocals.deviation)
        IN  /\ RLe(sum, I(1))
            /\ AnalysedLocals.fault_prob = sum
            /\ response.body.fault_prob = Round(sum, 1000)

\* Over-performance beyond +20 with a hot panel, heavy soiling and a weak
\* inverter: the four largest increments together.
C12_Witness ==
    /\ Analysed
    /\ RLt(I(20), AnalysedLocals.deviation)
    /\ RLt(I(75), AnalysedInputs.panel_temp)
    /\ RLt(I(8), Get(AnalysedInputs, "soiling_index", I(2)))
    /\ RLt(Get(AnalysedInputs, "inverter_eff", I(96)), I(94))
    /\ AnalysedLocals.fault_prob = I(1)

-----------------------------------------------------------------------------
(* The recommendation rules                                                *)

\* What the rules appended in the analysed call, before sorting and cutting.
AnalysedAppended ==
    AppendRecommendations(model_instance, AnalysedInputs,
                          AnalysedLocals.deviation, AnalysedLocals.actual_output)

\* The priority the battery recommendation is documented to carry.
StatedBatteryPriority(inputs) ==
    LET battery_soc == Get(inputs, "battery_soc", I(70))
    IN  IF RLt(battery_soc, I(10)) THEN "Critical"
        ELSE IF RLt(battery_soc, I(20)) THEN "Medium"
        ELSE "Info"

\* The number of entries of a list equal to rec.
Occurrences(recs, rec) ==
    Cardinality({ i \in 1..Len(recs) : recs[i] = rec })

\* C13: the rules generate between 1 and 6 recommendations, exactly one of
\* them a battery recommendation (Critical if battery_soc < 10, else Medium
\* if < 20, else Info); the cut to 6 entries discards none of them and the
\* returned list is never empty.
C13_OneBatteryNoneDiscarded ==
    Analysed =>
        LET appended == AnalysedAppended
            returned == response.body.recommendations
            battery  == { i \in 1..Len(appended) : RuleIndex(appended[i]) = 4 }
        IN  /\ Len(appended) >= 1
            /\ Len(appended) <= 6
            /\ Cardinality(battery) = 1
            /\ \A i \in battery :
                   appended[i].priority = StatedBatteryPriority(AnalysedInputs)
            /\ Len(returned) = Len(appended)
            /\ \A i \in 1..Len(appended) :
                   Occurrences(returned, appended[i]) = Occurrences(appended, appended[i])
            /\ returned # <<>>

\* All six rules appended an entry, the battery's being the Medium one.
C13_Witness ==
    /\ Analysed
    /\ Len(AnalysedAppended) = 6
    /\ Len(response.body.recommendations) = 6
    /\ \E i \in 1..6 : response.body.recommendations[i] = Rec("Medium", "battery_low")

\* C14: the deviation rule appends a High recommendation iff actual_output is
\* supplied and deviation < -20, a Medium one iff actual_output is supplied
\* and -20 <= deviation < -10, and nothing otherwise; a deviation above +20
\* adds 0.4 to the fault score and produces no deviation recommendation.
C14_UnderperformanceOnly ==
    Analysed =>
        LET l        == AnalysedLocals
            returned == response.body.recommendations
            supplied == "actual_output" \in DOMAIN AnalysedInputs
            high     == Occurrences(returned, Rec("High", "significant_underperformance"))
            medium   == Occurrences(returned, Rec("Medium", "output_below_expected"))
            others   == RAdd(RAdd(PanelTempFault(model_instance, AnalysedInputs),
                                  SoilingFault(model_instance, AnalysedInputs)),
                             InverterFault(model_instance, AnalysedInputs))
        IN  /\ high = IF supplied /\ RLt(l.deviation, I(-20)) THEN 1 ELSE 0
            /\ medium = IF /\ supplied
                           /\ RLe(I(-20), l.deviation)
                           /\ RLt(l.deviation, I(-10))
                        THEN 1 ELSE 0
            /\ \A i \in 1..Len(returned) :
                   returned[i].msg \in DeviationMessages
                       => returned[i] \in { Rec("High", "significant_underperformance"),
                                            Rec("Medium", "output_below_expected") }
            /\ RLt(I(20), l.deviation) =>
                   /\ l.fault_prob = RMin(I(1), RAdd(R(4, 10), others))
                   /\ high = 0
                   /\ medium = 0

\* Output more than 20 % above the prediction: the fault score carries the
\* 0.4 and the list carries no deviation recommendation.
C14_Witness ==
    /\ Analysed
    /\ "actual_output" \in DOMAIN AnalysedInputs
    /\ RLt(I(20), AnalysedLocals.deviation)
    /\ RLe(R(4, 10), AnalysedLocals.fault_prob)
    /\ \A i \in 1..Len(response.body.recommendations) :
           response.body.recommendations[i].msg \notin DeviationMessages

-----------------------------------------------------------------------------
(* The values the components read                                          *)

\* The fallbacks the components give an absent field: one value everywhere,
\* except irradiance, which predict_output reads with fallback 0 and
\* _generate_recommendations with fallback 800.
SharedFallbacks ==
    [ ambient_temp |-> I(25), panel_temp |-> I(35), battery_soc |-> I(70),
      inverter_eff |-> I(96), soiling_index |-> I(2), wind_speed |-> I(2) ]

IrradianceFallbacks == {I(0), I(800)}

\* The records that carry every field the components share: the fields of
\* inputs as supplied and one fallback value for each absent one.
Filled(inputs) ==
    { [ k \in DOMAIN inputs \cup DOMAIN SharedFallbacks \cup {"irradiance"} |->
          IF k \in DOMAIN inputs THEN inputs[k]
          ELSE IF k = "irradiance" THEN irradiance
          ELSE SharedFallbacks[k] ] :
        irradiance \in IrradianceFallbacks }

\* A reply is what the components produce when all of them read one value
\* per field.
ReadAtOneValue(inputs, reply) ==
    \E filled \in Filled(inputs) :
        LET result == PredictOutput(model_instance, filled)
        IN  \A k \in DOMAIN result : reply[k] = result[k]

\* C15: within one analysis every component (output predictor, fault scorer,
\* recommendation engine, weather scorer, battery scorer) evaluates each
\* telemetry field at the same value, an absent field at one fallback; the
\* irradiance of the low-irradiance rule is that of irradiance_factor and of
\* the weather score.
C15_SameFieldValues ==
    /\ Analysed => ReadAtOneValue(AnalysedInputs, response.body)
    /\ BatchAnswered =>
           \A i \in 1..Len(response.body.results) :
               response.body.results[i].status = "success" =>
                   ReadAtOneValue(Get(request.data.sites[i].v, "inputs", Obj(<<>>)).v,
                                  response.body.results[i])

=============================================================================
